---- MODULE Spec2Model ----
(***************************************************************************)
(* Model of the Deepfake-detector frontend: the main page (App.tsx,        *)
(* MainPage) and the diagnostics page (StatusPage), as one state machine.  *)
(* The state is the React state of the mounted page plus the asynchronous  *)
(* work in flight: fetch requests and the position of each runDiagnostics  *)
(* invocation.  An async handler is split at its awaits: one action per    *)
(* synchronous segment.  A fetch and the response.json() that follows it   *)
(* are one action (nothing is written between the two awaits).             *)
(***************************************************************************)
EXTENDS Naturals, Sequences, FiniteSets, TLC

\* ---------------------------------------------------------------- bounds
MaxChecks == 2
MaxAnalyses == 2
MaxPolls == 2
MaxRuns == 2
NumCallers == 3
MaxReloads == 1
MaxFrames == 60

\* ------------------------------------------------------- program constants
NumSteps == 5
LastPassingIndex == 4
N == 20
ExampleFrames == 720

\* ------------------------------------------------------------ optionals
None == <<>>
Some(x) == <<x>>

RemoveAt(s, i) == SubSeq(s, 1, i - 1) \o SubSeq(s, i + 1, Len(s))

\* the requests of an unmounted page stay in flight but their owner is gone
Orphaned(s) == [k \in 1..Len(s) |-> [s[k] EXCEPT !.live = FALSE]]

\* a GET /health just sent by the mounted page.  stale is history: a request issued
\* after this one has already been answered to the page
NewRequest == [live |-> TRUE, stale |-> FALSE]

\* the requests left in flight (oldest first) once the response of s[i] is handled
Overtaken(s, i) ==
  [k \in 1..(Len(s) - 1) |->
     IF k < i THEN [s[k] EXCEPT !.stale = @ \/ (s[i].live /\ s[k].live)] ELSE s[k + 1]]

\* ------------------------------------------------------ response bodies
AllUp == [flask |-> TRUE, cors |-> TRUE, deepfake_detector |-> TRUE, model_loaded |-> TRUE]
ModelDown == [flask |-> TRUE, cors |-> TRUE, deepfake_detector |-> FALSE, model_loaded |-> FALSE]

\* parsed bodies of GET /health (interface HealthStatus / HealthData)
HealthBodies ==
  { [success |-> TRUE,  data |-> Some([status |-> "healthy", services |-> AllUp]), error |-> None],
    [success |-> TRUE,  data |-> Some([status |-> "degraded", services |-> ModelDown]), error |-> None],
    [success |-> TRUE,  data |-> None, error |-> None],
    [success |-> FALSE, data |-> Some([status |-> "healthy", services |-> AllUp]), error |-> None],
    [success |-> FALSE, data |-> None, error |-> Some("Health check failed")] }

\* parsed bodies of POST /analyze (interface AnalysisResult); confidence in percent
AnalysisBodies ==
  { [success |-> TRUE,  data |-> Some([is_deepfake |-> TRUE, confidence |-> 93]), error |-> None],
    [success |-> TRUE,  data |-> Some([is_deepfake |-> FALSE, confidence |-> 88]), error |-> None],
    [success |-> TRUE,  data |-> None, error |-> None],
    [success |-> FALSE, data |-> None, error |-> Some("No video file provided")] }

Files == {"a.mp4", "b.mp4"}

\* how an awaited fetch + response.json() can settle
FetchFailures == {"reject", "unparsable"}
HealthOutcomes ==
  [kind : FetchFailures, body : {None}] \cup [kind : {"body"}, body : {Some(b) : b \in HealthBodies}]
AnalysisOutcomes ==
  [kind : FetchFailures, body : {None}] \cup [kind : {"body"}, body : {Some(b) : b \in AnalysisBodies}]
\* POST /debug-model: rejected, non-OK status, unparsable body, or a result
DebugOutcomes ==
  [kind : {"reject", "notOk", "unparsable"}, success : {FALSE}] \cup [kind : {"body"}, success : BOOLEAN]

NoDetails == "undefined"

VARIABLES
  page,            \* route rendered by the Router: "main" or "status"
  apiStatus, selectedFile, analyzing, analysisResult,   \* MainPage state
  healthChecks,    \* checkApiHealth calls awaiting GET /health
  analyses,        \* handleAnalyze calls awaiting POST /analyze
  currentStep, healthData, isRunning, steps,            \* StatusPage state
  polls,           \* fetchHealth calls awaiting GET /health
  runs,            \* runDiagnostics invocations
  lastEvent,       \* history: the handler segment that ran last and its input
  engineState,     \* InferenceEngine: "Unloaded", "Loading", "Ready" or "Failed"
  underlyingLoads, \* how often load() started the underlying load
  reloads,         \* how often the model was reloaded
  loadCall,        \* per caller: where its load() call is
  lastInfer,       \* history: the engine state at the last infer() and what it returned
  video,           \* decodable frames of the video being analysed (0: none yet)
  frameSequence    \* indices of the frames the sampler returned

mainVars == <<apiStatus, selectedFile, analyzing, analysisResult>>
statusVars == <<currentStep, healthData, isRunning, steps>>
frontendVars == <<page, apiStatus, selectedFile, analyzing, analysisResult, healthChecks,
                  analyses, currentStep, healthData, isRunning, steps, polls, runs, lastEvent>>
backendVars == <<engineState, underlyingLoads, reloads, loadCall, lastInfer, video, frameSequence>>
vars == <<page, apiStatus, selectedFile, analyzing, analysisResult, healthChecks, analyses,
          currentStep, healthData, isRunning, steps, polls, runs, lastEvent,
          engineState, underlyingLoads, reloads, loadCall, lastInfer, video, frameSequence>>

Event(op, live, kind, body, success) ==
  [op |-> op, live |-> live, kind |-> kind, body |-> body, success |-> success, before |-> None,
   stale |-> FALSE, file |-> None]
Did(op) == Event(op, TRUE, "none", None, FALSE)

\* useState initial values
InitialSteps == [k \in 1..NumSteps |-> [status |-> "pending", details |-> NoDetails]]
uploading == FALSE

MainPageInitialOffline ==
  /\ apiStatus = "offline"
  /\ selectedFile = None
  /\ analyzing = FALSE
  /\ analysisResult = None

MainPageInitial ==
  /\ apiStatus = "checking"
  /\ selectedFile = None
  /\ analyzing = FALSE
  /\ analysisResult = None

StatusPageInitial ==
  /\ currentStep = 0
  /\ healthData = None
  /\ isRunning = FALSE
  /\ steps = InitialSteps

\* the app opens on "/": MainPage is mounted and its effect has called checkApiHealth
Init ==
  /\ page = "main"
  /\ MainPageInitial
  /\ StatusPageInitial
  /\ healthChecks = <<NewRequest>>
  /\ analyses = <<>>
  /\ polls = <<>>
  /\ runs = <<>>
  /\ lastEvent = Did("mount")
  /\ engineState = "Unloaded"
  /\ underlyingLoads = 0
  /\ reloads = 0
  /\ loadCall = [c \in 1..NumCallers |-> "idle"]
  /\ lastInfer = [state |-> "none", result |-> "none"]
  /\ video = 0
  /\ frameSequence = <<>>

\* ------------------------------------------------------------- MainPage

\* checkApiHealth, after the awaits: the status the outcome sets
ApiStatusIgnoringStatus(o) ==
  IF o.kind = "body" /\ o.body[1].success THEN "online" ELSE "offline"

ApiStatusCheckingOnFailure(o) ==
  IF o.kind = "body"
    THEN IF o.body[1].success /\ o.body[1].data # None /\ o.body[1].data[1].status = "healthy"
           THEN "online"
           ELSE "offline"
    ELSE "checking"

ApiStatusAfter(o) ==
  IF o.kind = "body"
    THEN IF o.body[1].success /\ o.body[1].data # None /\ o.body[1].data[1].status = "healthy"
           THEN "online"
           ELSE "offline"
    ELSE "offline"

\* checkApiHealth up to its first await: GET /health is sent
checkApiHealthNotSent ==
  healthChecks' = healthChecks

checkApiHealth ==
  healthChecks' = Append(healthChecks, NewRequest)

\* checkApiHealth from the awaits on; setState of an unmounted page is a no-op
checkApiHealthSettled ==
  \E i \in 1..Len(healthChecks), o \in HealthOutcomes :
    /\ healthChecks' = Overtaken(healthChecks, i)
    /\ apiStatus' = IF healthChecks[i].live THEN ApiStatusAfter(o) ELSE apiStatus
    /\ lastEvent' = [Event("checkApiHealth.settled", healthChecks[i].live, o.kind, o.body, FALSE)
                       EXCEPT !.before = Some(apiStatus), !.stale = healthChecks[i].stale]
    /\ UNCHANGED <<page, selectedFile, analyzing, analysisResult, analyses, statusVars, polls, runs>>
    /\ UNCHANGED backendVars

\* the Retry button is rendered only while apiStatus is offline
RetryButtonShown == page = "main" /\ apiStatus = "offline"

ClickRetry ==
  /\ RetryButtonShown
  /\ Len(healthChecks) < MaxChecks
  /\ checkApiHealth
  /\ lastEvent' = Did("Retry")
  /\ UNCHANGED <<page, mainVars, analyses, statusVars, polls, runs>>
  /\ UNCHANGED backendVars

\* the upload section, and with it the file input, is rendered only when online
UploadSectionUnlessOffline == page = "main" /\ apiStatus # "offline"

UploadSectionShown == page = "main" /\ apiStatus = "online"

\* handleFileSelect with a file chosen in the dialog
handleFileSelect(file) ==
  /\ UploadSectionShown
  /\ selectedFile' = Some(file)
  /\ analysisResult' = None
  /\ lastEvent' = Did("handleFileSelect")
  /\ UNCHANGED <<page, apiStatus, analyzing, healthChecks, analyses, statusVars, polls, runs>>
  /\ UNCHANGED backendVars

UploadButtonShown == UploadSectionShown /\ selectedFile # None
UploadButtonNeverDisabled == FALSE

UploadButtonDisabled == uploading \/ analyzing

\* handleAnalyze up to its first await
handleAnalyzeUnguarded ==
  /\ analyzing' = TRUE
  /\ analysisResult' = None
  /\ analyses' = Append(analyses, [file |-> IF selectedFile = None THEN "undefined"
                                                                   ELSE selectedFile[1],
                                    live |-> TRUE])

handleAnalyze ==
  IF selectedFile = None
    THEN UNCHANGED <<analyzing, analysisResult, analyses>>
    ELSE /\ analyzing' = TRUE
         /\ analysisResult' = None
         /\ analyses' = Append(analyses, [file |-> selectedFile[1], live |-> TRUE])

handleUpload ==
  IF selectedFile = None
    THEN UNCHANGED <<analyzing, analysisResult, analyses>>
    ELSE handleAnalyze

ClickUpload ==
  /\ UploadButtonShown
  /\ ~UploadButtonDisabled
  /\ Len(analyses) < MaxAnalyses
  /\ handleUpload
  /\ lastEvent' = Did("handleUpload")
  /\ UNCHANGED <<page, apiStatus, selectedFile, healthChecks, statusVars, polls, runs>>
  /\ UNCHANGED backendVars

\* text of the caught error
AnalysisFailedText(kind) ==
  IF kind = "reject" THEN "Analysis failed: Failed to fetch"
                     ELSE "Analysis failed: Unexpected token < in JSON at position 0"

\* handleAnalyze, try/catch: the value given to setAnalysisResult
AnalysisResultSwallowed(o) ==
  IF o.kind = "body" THEN o.body ELSE None

AnalysisResultAfter(o) ==
  IF o.kind = "body"
    THEN o.body
    ELSE Some([success |-> FALSE, data |-> None, error |-> Some(AnalysisFailedText(o.kind))])

\* handleAnalyze, finally
AnalyzingAfter == FALSE

handleAnalyzeSettled ==
  \E i \in 1..Len(analyses), o \in AnalysisOutcomes :
    /\ analyses' = RemoveAt(analyses, i)
    /\ IF analyses[i].live
         THEN /\ analysisResult' = AnalysisResultAfter(o)
              /\ analyzing' = AnalyzingAfter
         ELSE UNCHANGED <<analysisResult, analyzing>>
    /\ lastEvent' = [Event("handleAnalyze.settled", analyses[i].live, o.kind, o.body, FALSE)
                       EXCEPT !.file = Some(analyses[i].file)]
    /\ UNCHANGED <<page, apiStatus, selectedFile, healthChecks, statusVars, polls, runs>>
    /\ UNCHANGED backendVars

\* the two handlers called as functions, whatever the page renders
CallHandleUpload ==
  /\ page = "main"
  /\ Len(analyses) < MaxAnalyses
  /\ handleUpload
  /\ lastEvent' = Did("handleUpload")
  /\ UNCHANGED <<page, apiStatus, selectedFile, healthChecks, statusVars, polls, runs>>
  /\ UNCHANGED backendVars

CallHandleAnalyze ==
  /\ page = "main"
  /\ Len(analyses) < MaxAnalyses
  /\ handleAnalyze
  /\ lastEvent' = Did("handleAnalyze")
  /\ UNCHANGED <<page, apiStatus, selectedFile, healthChecks, statusVars, polls, runs>>
  /\ UNCHANGED backendVars

\* the message rendered in place of the upload section
OfflineMessageShown == page = "main" /\ apiStatus # "online"

\* what MainPage renders for the analysis (the result block sits in the upload section)
ResultShown ==
  IF UploadSectionShown /\ analysisResult # None /\ ~analyzing
    THEN IF analysisResult[1].success /\ analysisResult[1].data # None
           THEN IF analysisResult[1].data[1].is_deepfake THEN "Deepfake Detected"
                                                         ELSE "Authentic Video"
           ELSE "ErrorMessage"
    ELSE "nothing"

\* ----------------------------------------------------------- StatusPage

\* fetchHealth up to its first await: GET /health is sent
fetchHealth ==
  polls' = Append(polls, NewRequest)

\* fetchHealth, try/catch: the value given to setHealthData
FailedSnapshot ==
  Some([success |-> FALSE, data |-> None, error |-> Some("Failed to connect to backend")])

HealthDataUnsetOnFailure(o) ==
  IF o.kind = "body" THEN o.body ELSE None

HealthDataCachedOnFailure(o) ==
  IF o.kind = "body" THEN o.body ELSE IF healthData # None THEN healthData ELSE FailedSnapshot

HealthDataAfter(o) ==
  IF o.kind = "body"
    THEN o.body
    ELSE FailedSnapshot

fetchHealthSettled ==
  \E i \in 1..Len(polls), o \in HealthOutcomes :
    /\ polls' = Overtaken(polls, i)
    /\ healthData' = IF polls[i].live THEN HealthDataAfter(o) ELSE healthData
    /\ lastEvent' = [Event("fetchHealth.settled", polls[i].live, o.kind, o.body, FALSE)
                       EXCEPT !.before = healthData, !.stale = polls[i].stale]
    /\ UNCHANGED <<page, mainVars, healthChecks, analyses, currentStep, isRunning, steps, runs>>
    /\ UNCHANGED backendVars

\* the interval is set by the mount effect and cleared by its cleanup
IntervalNeverCleared == TRUE

IntervalPausedWhileRunning == page = "status" /\ ~isRunning

IntervalActive == page = "status"

\* setInterval(fetchHealth, 5000) fires while the page is mounted
IntervalTick ==
  /\ IntervalActive
  /\ Len(polls) < MaxPolls
  /\ fetchHealth
  /\ lastEvent' = Did("interval")
  /\ UNCHANGED <<page, mainVars, healthChecks, analyses, statusVars, runs>>
  /\ UNCHANGED backendVars

\* what the health card renders from healthData
HealthCard ==
  [ status |-> IF healthData # None /\ healthData[1].success THEN "online" ELSE "offline",
    services |-> IF healthData # None /\ healthData[1].success /\ healthData[1].data # None
                   THEN Some(healthData[1].data[1].services)
                   ELSE None,
    message |-> IF healthData # None /\ healthData[1].success /\ healthData[1].data # None
                  THEN None
                  ELSE IF healthData # None /\ healthData[1].error # None
                         THEN healthData[1].error
                         ELSE Some("Unable to connect to backend service") ]

\* setSteps(prev => prev.map(...)) updaters of runDiagnostics
ResetStepsForgotten(prev) == prev

ResetSteps(prev) ==
  [k \in 1..NumSteps |-> [prev[k] EXCEPT !.status = "pending"]]

MarkRunning(prev, i) ==
  [k \in 1..NumSteps |-> IF k - 1 = i THEN [prev[k] EXCEPT !.status = "running"] ELSE prev[k]]

\* const success = result.success && i < 4
StepSucceeds(resultSuccess, i) == resultSuccess /\ i < LastPassingIndex

MarkOutcomeDetailsOnly(prev, i, success) ==
  [k \in 1..NumSteps |->
     IF k - 1 = i
       THEN [prev[k] EXCEPT !.details = IF success THEN "Completed successfully"
                                                   ELSE "Check backend logs for details"]
       ELSE prev[k]]

MarkOutcome(prev, i, success) ==
  [k \in 1..NumSteps |->
     IF k - 1 = i
       THEN [status |-> IF success THEN "success" ELSE "error",
             details |-> IF success THEN "Completed successfully"
                                    ELSE "Check backend logs for details"]
       ELSE prev[k]]

\* catch: the step at the currentStep the handler closed over
MarkUnavailableFromCurrent(prev, closedStep) ==
  [k \in 1..NumSteps |->
     IF k - 1 >= closedStep
       THEN [status |-> "error", details |-> "Backend service unavailable"]
       ELSE prev[k]]

MarkUnavailable(prev, closedStep) ==
  [k \in 1..NumSteps |->
     IF k - 1 = closedStep
       THEN [status |-> "error", details |-> "Backend service unavailable"]
       ELSE prev[k]]

\* for (let i = 0; i < steps.length; i++): what follows iteration i
LoopContinues(i) == i + 1 < NumSteps

\* setIsRunning(false) after the try/catch
IsRunningNeverCleared == TRUE

IsRunningAfterRun == FALSE

RunButtonNeverDisabled == FALSE

RunButtonDisabled == isRunning

LiveRuns == {r \in 1..Len(runs) : runs[r].live}

\* runDiagnostics up to its first await; the handler closes over the rendered currentStep
runDiagnostics ==
  /\ isRunning' = TRUE
  /\ currentStep' = 0
  /\ steps' = ResetSteps(steps)
  /\ runs' = Append(runs, [pc |-> "fetch", i |-> 0, success |-> FALSE,
                            closedStep |-> currentStep, live |-> TRUE])

ClickRunDiagnostics ==
  /\ page = "status"
  /\ ~RunButtonDisabled
  /\ Len(runs) < MaxRuns
  /\ runDiagnostics
  /\ lastEvent' = Did("runDiagnostics")
  /\ UNCHANGED <<page, mainVars, healthChecks, analyses, healthData, polls>>
  /\ UNCHANGED backendVars

\* POST /debug-model settles: the catch block, or the first loop iteration up to its timer.
\* A run whose page was unmounted only calls setState of the unmounted page.
runDiagnosticsSettled ==
  \E r \in 1..Len(runs), o \in DebugOutcomes :
    /\ runs[r].pc = "fetch"
    /\ lastEvent' = Event("runDiagnostics.settled", runs[r].live, o.kind, None, o.success)
    /\ IF ~runs[r].live
         THEN /\ runs' = RemoveAt(runs, r)
              /\ UNCHANGED <<currentStep, isRunning, steps>>
         ELSE IF o.kind # "body"
           THEN /\ steps' = MarkUnavailable(steps, runs[r].closedStep)
                /\ isRunning' = IsRunningAfterRun
                /\ runs' = RemoveAt(runs, r)
                /\ UNCHANGED currentStep
           ELSE /\ currentStep' = 0
                /\ steps' = MarkRunning(steps, 0)
                /\ runs' = [runs EXCEPT ![r] = [@ EXCEPT !.pc = "wait1500", !.i = 0,
                                                          !.success = o.success]]
                /\ UNCHANGED isRunning
    /\ UNCHANGED <<page, mainVars, healthChecks, analyses, healthData, polls>>
    /\ UNCHANGED backendVars

\* the 1500 ms timer of iteration i fires: the step's outcome is set
runDiagnosticsAnimated ==
  \E r \in 1..Len(runs) :
    /\ runs[r].pc = "wait1500"
    /\ steps' = MarkOutcome(steps, runs[r].i, StepSucceeds(runs[r].success, runs[r].i))
    /\ runs' = [runs EXCEPT ![r] = [@ EXCEPT !.pc = "wait500"]]
    /\ lastEvent' = Event("runDiagnostics.outcome", TRUE, "none", None, runs[r].success)
    /\ UNCHANGED <<page, mainVars, healthChecks, analyses, currentStep, healthData, isRunning, polls>>
    /\ UNCHANGED backendVars

\* the 500 ms timer of iteration i fires: the next iteration starts, or the run ends
runDiagnosticsNext ==
  \E r \in 1..Len(runs) :
    /\ runs[r].pc = "wait500"
    /\ IF LoopContinues(runs[r].i)
         THEN /\ currentStep' = runs[r].i + 1
              /\ steps' = MarkRunning(steps, runs[r].i + 1)
              /\ runs' = [runs EXCEPT ![r] = [@ EXCEPT !.pc = "wait1500", !.i = @ + 1]]
              /\ lastEvent' = Event("runDiagnostics.next", TRUE, "none", None, runs[r].success)
              /\ UNCHANGED isRunning
         ELSE /\ isRunning' = IsRunningAfterRun
              /\ runs' = RemoveAt(runs, r)
              /\ lastEvent' = Event("runDiagnostics.done", TRUE, "none", None, runs[r].success)
              /\ UNCHANGED <<currentStep, steps>>
    /\ UNCHANGED <<page, mainVars, healthChecks, analyses, healthData, polls>>
    /\ UNCHANGED backendVars

\* ----------------------------------------------------------- navigation

\* a run of an unmounted page matters only while its POST is outstanding
OrphanedRuns(s) == Orphaned(SelectSeq(s, LAMBDA r : r.pc = "fetch"))

\* DIAGNOSTICS button: navigate('/status').  MainPage unmounts and its state is
\* gone; StatusPage mounts with its initial state and its effect calls fetchHealth.
NavigateToStatus ==
  /\ page = "main"
  /\ Len(polls) < MaxPolls
  /\ page' = "status"
  /\ apiStatus' = "checking"
  /\ selectedFile' = None
  /\ analyzing' = FALSE
  /\ analysisResult' = None
  /\ healthChecks' = Orphaned(healthChecks)
  /\ analyses' = Orphaned(analyses)
  /\ fetchHealth
  /\ lastEvent' = Did("mount")
  /\ UNCHANGED <<statusVars, runs>>
  /\ UNCHANGED backendVars

\* history navigation to "/": StatusPage unmounts (the effect's cleanup clears the
\* interval) and MainPage mounts with its initial state; its effect calls checkApiHealth.
NavigateToMain ==
  /\ page = "status"
  /\ Len(healthChecks) < MaxChecks
  /\ page' = "main"
  /\ currentStep' = 0
  /\ healthData' = None
  /\ isRunning' = FALSE
  /\ steps' = InitialSteps
  /\ polls' = Orphaned(polls)
  /\ runs' = OrphanedRuns(runs)
  /\ checkApiHealth
  /\ lastEvent' = Did("mount")
  /\ UNCHANGED <<mainVars, analyses>>
  /\ UNCHANGED backendVars

\* ------------------------------------------------------ InferenceEngine

Callers == 1..NumCallers
LoadErrors == {"AuthError", "NetworkError", "LoadError"}

\* load() starts the underlying load only from Unloaded: the guard around the transition
LoadStartsUnguarded(state) == state \in {"Unloaded", "Loading"}

LoadStarts(state) == state = "Unloaded"

\* load() called by c: it starts the load, joins the load in flight, or returns at once
\* (Ready: idempotent; Failed: the attempt is over)
load(c) ==
  /\ loadCall[c] = "idle"
  /\ IF LoadStarts(engineState)
       THEN /\ engineState' = "Loading"
            /\ underlyingLoads' = underlyingLoads + 1
            /\ loadCall' = [loadCall EXCEPT ![c] = "loading"]
       ELSE /\ loadCall' = [loadCall EXCEPT ![c] =
                               CASE engineState = "Loading" -> "waiting"
                                 [] engineState = "Ready" -> "Ready"
                                 [] OTHER -> "Failed"]
            /\ UNCHANGED <<engineState, underlyingLoads>>
  /\ UNCHANGED <<reloads, lastInfer, video, frameSequence, frontendVars>>

\* the load in flight ends; every caller blocked on it returns with its result
loadFinished ==
  \E result \in {"Ready"} \cup LoadErrors :
    /\ engineState = "Loading"
    /\ engineState' = IF result = "Ready" THEN "Ready" ELSE "Failed"
    /\ loadCall' = [c \in Callers |->
                      IF loadCall[c] \in {"loading", "waiting"} THEN result ELSE loadCall[c]]
    /\ UNCHANGED <<underlyingLoads, reloads, lastInfer, video, frameSequence, frontendVars>>

\* Ready -> Loading again on reload
reload ==
  /\ engineState = "Ready"
  /\ reloads < MaxReloads
  /\ engineState' = "Loading"
  /\ reloads' = reloads + 1
  /\ UNCHANGED <<underlyingLoads, loadCall, lastInfer, video, frameSequence, frontendVars>>

\* infer(batch) is valid only in Ready
InferUnchecked(state) == "InferenceScore"

InferResult(state) == IF state = "Ready" THEN "InferenceScore" ELSE "ModelNotReady"

infer ==
  /\ lastInfer' = [state |-> engineState, result |-> InferResult(engineState)]
  /\ UNCHANGED <<engineState, underlyingLoads, reloads, loadCall, video, frameSequence,
                 frontendVars>>

NextEngine ==
  \/ \E c \in Callers : load(c)
  \/ loadFinished
  \/ reload
  \/ infer

\* --------------------------------------------------------- FrameSampler

\* round(a / b), a and b positive integers
Round(a, b) == (2 * a + b) \div (2 * b)

\* a video of frames decodable frames: N indices evenly spaced from the first frame to
\* the last, or all the frames and then the last one repeated up to N
SampleUnpadded(frames) ==
  IF frames >= N
    THEN [i \in 1..N |-> Round((i - 1) * (frames - 1), N - 1)]
    ELSE [i \in 1..frames |-> i - 1]

Sample(frames) ==
  IF frames >= N
    THEN [i \in 1..N |-> Round((i - 1) * (frames - 1), N - 1)]
    ELSE [i \in 1..N |-> IF i <= frames THEN i - 1 ELSE frames - 1]

\* a request brings a video that can be decoded
VideoArrives ==
  \E frames \in (1..MaxFrames) \cup {ExampleFrames} :
    /\ video' = frames
    /\ frameSequence' = <<>>
    /\ UNCHANGED <<engineState, underlyingLoads, reloads, loadCall, lastInfer, frontendVars>>

SampleFrames ==
  /\ video > 0
  /\ frameSequence = <<>>
  /\ frameSequence' = Sample(video)
  /\ UNCHANGED <<engineState, underlyingLoads, reloads, loadCall, lastInfer, video, frontendVars>>

NextSampler ==
  \/ VideoArrives
  \/ SampleFrames

\* The two pages share no state: MainPage with its mounts and unmounts ...
NextMain ==
  \/ checkApiHealthSettled
  \/ ClickRetry
  \/ \E f \in Files : handleFileSelect(f)
  \/ ClickUpload
  \/ handleAnalyzeSettled
  \/ fetchHealthSettled
  \/ NavigateToStatus
  \/ NavigateToMain

\* ... and StatusPage with its mounts and unmounts
NextStatus ==
  \/ fetchHealthSettled
  \/ IntervalTick
  \/ ClickRunDiagnostics
  \/ runDiagnosticsSettled
  \/ runDiagnosticsAnimated
  \/ runDiagnosticsNext
  \/ checkApiHealthSettled
  \/ NavigateToStatus
  \/ NavigateToMain

Next ==
  \/ NextMain
  \/ NextStatus

\* MainPage with its handlers also called directly
NextHandlers ==
  \/ NextMain
  \/ CallHandleUpload
  \/ CallHandleAnalyze

Spec == Init /\ [][Next]_vars
SpecHandlers == Init /\ [][NextHandlers]_vars
SpecEngine == Init /\ [][NextEngine]_vars
SpecSampler == Init /\ [][NextSampler]_vars
SpecMain == Init /\ [][NextMain]_vars
SpecStatus == Init /\ [][NextStatus]_vars

\* what happens without the user: a request in flight settles
SpecMainFair ==
  /\ Init
  /\ [][NextMain]_vars
  /\ WF_vars(checkApiHealthSettled)
  /\ WF_vars(handleAnalyzeSettled)
  /\ WF_vars(fetchHealthSettled)

\* the status page with the mount poll only: the interval polls touch no state of a run
NextRuns ==
  \/ fetchHealthSettled
  \/ ClickRunDiagnostics
  \/ runDiagnosticsSettled
  \/ runDiagnosticsAnimated
  \/ runDiagnosticsNext
  \/ checkApiHealthSettled
  \/ NavigateToStatus
  \/ NavigateToMain

\* the browser answers or fails every request and fires every timer of a run
SpecRunsFair ==
  /\ Init
  /\ [][NextRuns]_vars
  /\ WF_vars(runDiagnosticsSettled)
  /\ WF_vars(runDiagnosticsAnimated)
  /\ WF_vars(runDiagnosticsNext)

TypeOK ==
  /\ page \in {"main", "status"}
  /\ apiStatus \in {"checking", "online", "offline"}
  /\ analyzing \in BOOLEAN
  /\ isRunning \in BOOLEAN
  /\ currentStep \in 0..(NumSteps - 1)
  /\ \A k \in 1..NumSteps : steps[k].status \in {"pending", "running", "success", "error"}

\* ================================================================ claims

Finished(status) == status \in {"success", "error"}

\* C1: once a step has status error the runner stops advancing: the failing step
\* carries a detail and every later step has status pending.
C1_StopsAtFirstError ==
  \A k \in 1..NumSteps :
    steps[k].status = "error" =>
      /\ steps[k].details # NoDetails
      /\ \A j \in (k + 1)..NumSteps : steps[j].status = "pending"

\* C2: a run whose POST /debug-model result has success = true ends with all 5 steps
\* in status success.
C2_SuccessfulRunAllSuccess ==
  (lastEvent.op = "runDiagnostics.done" /\ lastEvent.success) =>
    \A k \in 1..NumSteps : steps[k].status = "success"

\* C3: a step reaches success or error only from running, and a step becomes running
\* only from pending and only after every earlier step has reached success or error.
C3_OrderedTransitions ==
  [][\A k \in 1..NumSteps :
       steps'[k].status # steps[k].status =>
         /\ Finished(steps'[k].status) => steps[k].status = "running"
         /\ steps'[k].status = "running" =>
              /\ steps[k].status = "pending"
              /\ \A j \in 1..(k - 1) : Finished(steps[j].status)]_vars

\* C4: once a run has started, and until its POST /debug-model settles (so before any
\* step is set to running), every step has status pending.
C4_ResetBeforeRunning ==
  \A r \in LiveRuns :
    runs[r].pc = "fetch" => \A k \in 1..NumSteps : steps[k].status = "pending"

\* a run has just started on steps that carry the details of an earlier run
C4_Witness ==
  /\ lastEvent.op = "runDiagnostics"
  /\ \E k \in 1..NumSteps : steps[k].details = "Check backend logs for details"
  /\ \A k \in 1..NumSteps : steps[k].status = "pending"

C6_TaggedOutcome ==
  (lastEvent.op = "handleAnalyze.settled" /\ lastEvent.live) =>
    /\ analyzing = FALSE
    /\ analysisResult # None
    /\ lastEvent.kind \in FetchFailures =>
         /\ analysisResult[1].success = FALSE
         /\ analysisResult[1].error # None

C6_Witness ==
  /\ lastEvent.op = "handleAnalyze.settled"
  /\ lastEvent.live
  /\ lastEvent.kind = "unparsable"
  /\ analysisResult # None

\* C7: when a health check settles for the mounted main page, apiStatus is online iff
\* the response was read and has success = true and data.status = "healthy"; otherwise
\* it is offline.
C7_OnlineIffHealthy ==
  (lastEvent.op = "checkApiHealth.settled" /\ lastEvent.live) =>
    LET healthy == /\ lastEvent.kind = "body"
                   /\ lastEvent.body[1].success
                   /\ lastEvent.body[1].data # None
                   /\ lastEvent.body[1].data[1].status = "healthy"
    IN  /\ healthy => apiStatus = "online"
        /\ ~healthy => apiStatus = "offline"

\* a response with success = true and a status other than healthy has set offline
C7_Witness ==
  /\ lastEvent.op = "checkApiHealth.settled"
  /\ lastEvent.live
  /\ lastEvent.kind = "body"
  /\ lastEvent.body[1].success
  /\ lastEvent.body[1].data # None
  /\ lastEvent.body[1].data[1].status # "healthy"
  /\ apiStatus = "offline"

AllServicesFalse(services) ==
  /\ ~services.flask
  /\ ~services.cors
  /\ ~services.deepfake_detector
  /\ ~services.model_loaded

\* C8 (as stated): after a poll that could not reach the backend or read its response,
\* healthData is a snapshot whose components are all reported as false.
C8_ComponentsReportedFalse ==
  (lastEvent.op = "fetchHealth.settled" /\ lastEvent.live /\ lastEvent.kind \in FetchFailures) =>
    /\ healthData # None
    /\ healthData[1].data # None
    /\ AllServicesFalse(healthData[1].data[1].services)

\* C8 (amended): after a poll that could not reach the backend or read its response,
\* healthData is defined: success = false, the error text 'Failed to connect to backend'
\* and no data; the card shows offline with that text and no per-component list.
C8_FailedPollYieldsSnapshot ==
  (lastEvent.op = "fetchHealth.settled" /\ lastEvent.live /\ lastEvent.kind \in FetchFailures) =>
    /\ healthData # None
    /\ healthData[1].success = FALSE
    /\ healthData[1].data = None
    /\ healthData[1].error = Some("Failed to connect to backend")
    /\ HealthCard.status = "offline"
    /\ HealthCard.services = None
    /\ HealthCard.message = Some("Failed to connect to backend")

C8_Witness ==
  /\ lastEvent.op = "fetchHealth.settled"
  /\ lastEvent.live
  /\ lastEvent.kind = "reject"
  /\ page = "status"
  /\ healthData # None

\* C9: when a poll settles for the mounted page, healthData is exactly that poll's
\* outcome, the body read or the failure snapshot, whatever it held before.
C9_SnapshotReplaced ==
  (lastEvent.op = "fetchHealth.settled" /\ lastEvent.live) =>
    IF lastEvent.kind = "body"
      THEN healthData = lastEvent.body
      ELSE healthData = Some([success |-> FALSE, data |-> None,
                              error |-> Some("Failed to connect to backend")])

\* a failed poll has settled over a successful snapshot with data
C9_Witness ==
  /\ lastEvent.op = "fetchHealth.settled"
  /\ lastEvent.live
  /\ lastEvent.kind \in FetchFailures
  /\ lastEvent.before # None
  /\ lastEvent.before[1].success
  /\ lastEvent.before[1].data # None
  /\ healthData # lastEvent.before

Verdicts == {"Deepfake Detected", "Authentic Video"}

\* C10: a verdict is shown only for a finished analysis whose result has success = true
\* and data, and then it is Deepfake Detected iff is_deepfake; every other finished
\* result shows the error message.
C10_VerdictDisplay ==
  /\ ResultShown \in Verdicts =>
       /\ ~analyzing
       /\ analysisResult # None
       /\ analysisResult[1].success
       /\ analysisResult[1].data # None
       /\ ResultShown = "Deepfake Detected" <=> analysisResult[1].data[1].is_deepfake
  /\ (/\ page = "main"
      /\ ~analyzing
      /\ analysisResult # None
      /\ ~(analysisResult[1].success /\ analysisResult[1].data # None))
       => ResultShown = "ErrorMessage"

\* C11: a call of handleUpload or handleAnalyze with a file selected sends exactly one
\* POST /analyze, carrying that file; with no file selected it sends nothing and leaves
\* analyzing and analysisResult as they were.
C11_OneRequestPerUpload ==
  [][lastEvent'.op \in {"handleUpload", "handleAnalyze"} =>
       IF selectedFile = None
         THEN UNCHANGED <<analyses, analyzing, analysisResult>>
         ELSE analyses' = Append(analyses, [file |-> selectedFile[1], live |-> TRUE])]_vars

\* a handler was called with no file selected
C11_Witness ==
  /\ lastEvent.op \in {"handleUpload", "handleAnalyze"}
  /\ page = "main"
  /\ selectedFile = None
  /\ ~analyzing

\* C12: the upload section is rendered exactly when apiStatus is online; while it is
\* offline the Service Unavailable message is rendered instead and no POST /analyze
\* is sent.
C12_UploadOnlyOnline ==
  /\ [](page = "main" =>
          /\ UploadSectionShown <=> apiStatus = "online"
          /\ apiStatus = "offline" => (OfflineMessageShown /\ ~UploadSectionShown))
  /\ [][(page = "main" /\ apiStatus = "offline") => Len(analyses') <= Len(analyses)]_vars

\* offline with a file selected and no analysis running: only the status stops an upload
C12_Witness ==
  /\ page = "main"
  /\ apiStatus = "offline"
  /\ selectedFile # None
  /\ ~analyzing

\* C13: a mounted main page has apiStatus checking at mount, and leaves checking only
\* when one of its own health checks settles.
C13_CheckingUntilFirstCheck ==
  /\ []((page = "main" /\ lastEvent.op = "mount") => apiStatus = "checking")
  /\ [][(page' = "main" /\ apiStatus = "checking" /\ apiStatus' # "checking") =>
          (lastEvent'.op = "checkApiHealth.settled" /\ lastEvent'.live)]_vars

\* the response to a check of an earlier mount arrived and the status is still checking
C13_Witness ==
  /\ page = "main"
  /\ lastEvent.op = "checkApiHealth.settled"
  /\ ~lastEvent.live
  /\ apiStatus = "checking"

\* C14: Retry is rendered exactly while apiStatus is offline; pressing it sends a health
\* check and leaves the status offline; a healthy response then sets online.
C14_RetryRechecks ==
  /\ [](page = "main" => (RetryButtonShown <=> apiStatus = "offline"))
  /\ [][lastEvent'.op = "Retry" =>
          /\ apiStatus = "offline"
          /\ apiStatus' = "offline"
          /\ healthChecks' = Append(healthChecks, NewRequest)]_vars
  /\ []((/\ lastEvent.op = "checkApiHealth.settled"
          /\ lastEvent.live
          /\ lastEvent.kind = "body"
          /\ lastEvent.body[1].success
          /\ lastEvent.body[1].data # None
          /\ lastEvent.body[1].data[1].status = "healthy") => apiStatus = "online")

\* a healthy response has moved the status from offline to online
C14_Witness ==
  /\ lastEvent.op = "checkApiHealth.settled"
  /\ lastEvent.live
  /\ lastEvent.before = Some("offline")
  /\ apiStatus = "online"

\* C15: a poll is sent when the status page mounts and at every tick of its interval,
\* and a poll is sent in no other step: none while the page is not mounted.
C15_PollsWhileMounted ==
  /\ [][(page = "main" /\ page' = "status") => polls' = Append(polls, NewRequest)]_vars
  /\ [][lastEvent'.op = "interval" =>
          (page = "status" /\ polls' = Append(polls, NewRequest))]_vars
  /\ [][Len(polls') > Len(polls) =>
          (page' = "status" /\ lastEvent'.op \in {"mount", "interval"})]_vars

\* a tick has sent a poll while the poll of the mount is still in flight
C15_Witness ==
  /\ lastEvent.op = "interval"
  /\ page = "status"
  /\ Len(polls) >= 2
  /\ \A i \in 1..Len(polls) : polls[i].live

\* C16: while the main page stays mounted it checks the backend again and again
\* without the user: one of its health checks is in flight infinitely often.
C16_RepeatedChecks ==
  []<>(page # "main" \/ \E i \in 1..Len(healthChecks) : healthChecks[i].live)

RunOps ==
  {"runDiagnostics", "runDiagnostics.settled", "runDiagnostics.outcome",
   "runDiagnostics.next", "runDiagnostics.done"}

\* C17: a tick or a settled poll leaves steps, currentStep, isRunning and the runs as
\* they were; a step of a diagnostics run leaves healthData and the polls in flight as
\* they were; and the interval can fire in every state of the mounted page, running or not.
C17_PollsAndRunsIndependent ==
  /\ [][lastEvent'.op \in {"interval", "fetchHealth.settled"} =>
          UNCHANGED <<steps, currentStep, isRunning, runs>>]_vars
  /\ [][lastEvent'.op \in RunOps => UNCHANGED <<healthData, polls>>]_vars
  /\ []((page = "status" /\ Len(polls) < MaxPolls) => ENABLED IntervalTick)

\* a poll of the mounted page has settled in the middle of a run
C17_Witness ==
  /\ lastEvent.op = "fetchHealth.settled"
  /\ lastEvent.live
  /\ isRunning
  /\ \E k \in 1..NumSteps : steps[k].status = "running"
  /\ healthData # None

\* C18: however many load() calls overlap, the underlying load is started once: a call
\* that finds the engine Loading waits for the load in flight, no caller stays blocked
\* once it has ended, and when it succeeds every caller that took part returns Ready.
C18_LoadOnce ==
  /\ [](underlyingLoads <= 1)
  /\ [](\A c \in Callers : loadCall[c] \in {"loading", "waiting"} => engineState = "Loading")
  /\ [](Cardinality({c \in Callers : loadCall[c] = "loading"}) <= 1)
  /\ [][(engineState = "Loading" /\ engineState' = "Ready") =>
          \A c \in Callers : loadCall[c] \in {"loading", "waiting"} => loadCall'[c] = "Ready"]_vars

\* three overlapping calls, one load, all returned Ready
C18_Witness ==
  /\ underlyingLoads = 1
  /\ reloads = 0
  /\ engineState = "Ready"
  /\ \A c \in Callers : loadCall[c] = "Ready"

EngineTransitions ==
  { <<"Unloaded", "Loading">>, <<"Loading", "Ready">>, <<"Loading", "Failed">>,
    <<"Ready", "Loading">> }

\* C19: the engine only moves Unloaded -> Loading -> Ready or Failed, and Ready ->
\* Loading on reload; infer() returns a score only in Ready and fails with
\* ModelNotReady in Unloaded, Loading and Failed.
C19_EngineStates ==
  /\ [][engineState' # engineState => <<engineState, engineState'>> \in EngineTransitions]_vars
  /\ [](lastInfer.result = "InferenceScore" => lastInfer.state = "Ready")
  /\ [](lastInfer.state \in {"Unloaded", "Loading", "Failed"} =>
          lastInfer.result = "ModelNotReady")

\* infer() was called on a failed engine
C19_Witness ==
  /\ lastInfer.state = "Failed"
  /\ lastInfer.result = "ModelNotReady"
  /\ engineState = "Failed"

Gap(i) == frameSequence[i + 1] - frameSequence[i]

C21_ResultForSelectedFile ==
  (lastEvent.op = "handleAnalyze.settled" /\ lastEvent.live /\ ResultShown # "nothing") =>
    lastEvent.file = selectedFile

\* C22: when the POST /debug-model of a run fails, the step marked error is step 1.
C22_FailureMarksStepOne ==
  (lastEvent.op = "runDiagnostics.settled" /\ lastEvent.live /\ lastEvent.kind # "body") =>
    /\ steps[1].status = "error"
    /\ \A k \in 2..NumSteps : steps[k].status # "error"

\* C23: when health checks of the main page overlap, the response of a check that was
\* issued before an already answered one does not overwrite apiStatus.
C23_LatestCheckWins ==
  (lastEvent.op = "checkApiHealth.settled" /\ lastEvent.live /\ lastEvent.stale) =>
    apiStatus = lastEvent.before[1]

\* C24: healthData holds the outcome of the latest issued poll among the completed
\* ones: the response of a poll issued before an already answered one does not
\* overwrite it, and the response of a poll of an unmounted page changes nothing.
C24_LatestPollWins ==
  lastEvent.op = "fetchHealth.settled" =>
    /\ (lastEvent.live /\ lastEvent.stale) => healthData = lastEvent.before
    /\ ~lastEvent.live => healthData = lastEvent.before

BackendFailures == {"reject", "notOk", "unparsable"}

\* C25: when POST /debug-model is rejected, answers with a non-OK status or with a body
\* that cannot be parsed, the run takes the error path: exactly one step is error with
\* the detail "Backend service unavailable", every other step is pending (none is
\* running), and the run has ended.
C25_ErrorPath ==
  (lastEvent.op = "runDiagnostics.settled" /\ lastEvent.live /\ lastEvent.kind \in BackendFailures) =>
    /\ \E k \in 1..NumSteps :
         /\ steps[k] = [status |-> "error", details |-> "Backend service unavailable"]
         /\ \A j \in (1..NumSteps) \ {k} : steps[j].status = "pending"
    /\ ~isRunning
    /\ LiveRuns = {}

C25_Witness ==
  /\ lastEvent.op = "runDiagnostics.settled" /\ lastEvent.live /\ lastEvent.kind = "notOk"
  /\ steps[NumSteps].status = "error"

Running == {k \in 1..NumSteps : steps[k].status = "running"}

\* C26: at most one step has status running, and while no run is in progress
\* (isRunning false) no step has status running.
C26_AtMostOneRunning ==
  /\ Cardinality(Running) <= 1
  /\ ~isRunning => Running = {}

C26_Witness ==
  /\ isRunning
  /\ Running = {3}
  /\ steps[2].status = "success"

\* C27: a step whose status is pending or running carries no details: the reset at the
\* start of a run clears the detail text of the previous run together with the status.
C27_PendingHasNoDetails ==
  \A k \in 1..NumSteps :
    steps[k].status \in {"pending", "running"} => steps[k].details = NoDetails

\* C28: every diagnostics run terminates: when POST /debug-model is answered or fails
\* and the timers fire, a run in progress leads to isRunning = false with no step
\* left running (every step pending, success or error).
C28_RunTerminates ==
  isRunning ~> (~isRunning /\ Running = {})

C28_Witness ==
  /\ lastEvent.op = "runDiagnostics.done"
  /\ ~isRunning
  /\ \A k \in 1..NumSteps : Finished(steps[k].status)

LiveAnalyses == {i \in 1..Len(analyses) : analyses[i].live}

C30_NeverBackToChecking ==
  [][(page = "main" /\ page' = "main" /\ apiStatus # "checking") => apiStatus' # "checking"]_vars

C30_Witness ==
  /\ lastEvent.op = "Retry"
  /\ apiStatus = "offline"
  /\ \E i \in 1..Len(healthChecks) : healthChecks[i].live

====
